---------------------------- MODULE Spec2Model ----------------------------
(***************************************************************************)
(* CoreDNS multi-cluster configuration manager.                            *)
(*                                                                         *)
(* The model covers the Corefile forward-rule engine (rule model, parser,  *)
(* block deletion, the add/delete/update handlers) and the per-cluster     *)
(* Kubernetes client cache (Manager).  Go strings are sequences of         *)
(* one-character strings, so that prefix, suffix, trimming, splitting and  *)
(* joining are computed the way the strings package computes them.         *)
(***************************************************************************)
EXTENDS Integers, Sequences, FiniteSets, TLC

(***************************************************************************)
(* Go strings package, on sequences of characters.                         *)
(***************************************************************************)
NL == "\n"

\* unicode.IsSpace restricted to the ASCII white space the inputs can hold
IsSpace(c) == c \in {" ", "\t", "\n", "\r"}

SetMin(S) == CHOOSE x \in S : \A y \in S : x <= y

SetMax(S) == CHOOSE x \in S : \A y \in S : y <= x

\* strings.HasPrefix
HasPrefix(s, p) == Len(p) <= Len(s) /\ SubSeq(s, 1, Len(p)) = p

\* strings.HasSuffix
HasSuffix(s, p) == Len(p) <= Len(s) /\ SubSeq(s, Len(s) - Len(p) + 1, Len(s)) = p

\* strings.TrimSuffix
TrimSuffix(s, p) == IF HasSuffix(s, p) THEN SubSeq(s, 1, Len(s) - Len(p)) ELSE s

\* strings.TrimSpace
TrimSpace(s) ==
    LET keep == {i \in 1..Len(s) : ~IsSpace(s[i])}
    IN  IF keep = {} THEN <<>> ELSE SubSeq(s, SetMin(keep), SetMax(keep))

\* strings.Index, 1-based; 0 when sub does not occur
Index(s, sub) ==
    LET at == {i \in 1..(Len(s) - Len(sub) + 1) : SubSeq(s, i, i + Len(sub) - 1) = sub}
    IN  IF at = {} THEN 0 ELSE SetMin(at)

\* strings.Contains
Contains(s, sub) == Index(s, sub) # 0

\* strings.Count(s, c) for a one-character c
Count(s, c) == Cardinality({i \in 1..Len(s) : s[i] = c})

\* strings.SplitN(s, sep, 2)
SplitN2(s, sep) ==
    LET k == Index(s, sep)
    IN  IF k = 0 THEN <<s>>
        ELSE <<SubSeq(s, 1, k - 1), SubSeq(s, k + Len(sep), Len(s))>>

\* strings.Split(s, sep) for a non-empty sep
RECURSIVE Split(_, _)
Split(s, sep) ==
    LET k == Index(s, sep)
    IN  IF k = 0 THEN <<s>>
        ELSE <<SubSeq(s, 1, k - 1)>> \o Split(SubSeq(s, k + Len(sep), Len(s)), sep)

\* strings.Join
RECURSIVE Join(_, _)
Join(parts, sep) ==
    IF Len(parts) = 0 THEN <<>>
    ELSE IF Len(parts) = 1 THEN parts[1]
    ELSE parts[1] \o sep \o Join(Tail(parts), sep)

\* strings.Fields: the maximal runs of non-space characters, in order
RECURSIVE Fields(_)
Fields(s) ==
    LET keep == {i \in 1..Len(s) : ~IsSpace(s[i])}
    IN  IF keep = {} THEN <<>>
        ELSE LET b == SetMin(keep)
                 sp == {i \in b..Len(s) : IsSpace(s[i])}
                 e == IF sp = {} THEN Len(s) ELSE SetMin(sp) - 1
             IN  <<SubSeq(s, b, e)>> \o Fields(SubSeq(s, e + 1, Len(s)))

(***************************************************************************)
(* Literals of the rule grammar.                                           *)
(***************************************************************************)
\* ".svc.cluster.local"
SvcSuffix == <<".", "s", "v", "c", ".", "c", "l", "u", "s", "t", "e", "r", ".", "l", "o", "c", "a", "l">>

\* ":53"
Port53 == <<":", "5", "3">>

\* "forward ."
ForwardDot == <<"f", "o", "r", "w", "a", "r", "d", " ", ".">>

\* "cluster.local"
ClusterLocal == <<"c", "l", "u", "s", "t", "e", "r", ".", "l", "o", "c", "a", "l">>

\* ":53 {\n    forward . "
HeadForward == <<":", "5", "3", " ", "{", "\n", " ", " ", " ", " ", "f", "o", "r", "w", "a", "r", "d", " ", ".", " ">>

\* ":53 {\n    rewrite name exact "
HeadExact == <<":", "5", "3", " ", "{", "\n", " ", " ", " ", " ", "r", "e", "w", "r", "i", "t", "e", " ", "n", "a", "m", "e", " ", "e", "x", "a", "c", "t", " ">>

\* ":53 {\n    rewrite name regex (.*)\."
HeadRegex == <<":", "5", "3", " ", "{", "\n", " ", " ", " ", " ", "r", "e", "w", "r", "i", "t", "e", " ", "n", "a", "m", "e", " ", "r", "e", "g", "e", "x", " ", "(", ".", "*", ")", "\\", ".">>

\* " answer auto\n    forward . "
AnswerForward == <<" ", "a", "n", "s", "w", "e", "r", " ", "a", "u", "t", "o", "\n", " ", " ", " ", " ", "f", "o", "r", "w", "a", "r", "d", " ", ".", " ">>

\* "\n}"
CloseBlock == <<"\n", "}">>

(***************************************************************************)
(* Rule model (pkg/models/coredns.go).                                     *)
(***************************************************************************)
ForwardRule(ns, svc, ip, fqdn) ==
    [Namespace |-> ns, ServiceName |-> svc, TargetIP |-> ip, IsFullFQDN |-> fqdn]

GetFullName(r) ==
    IF r.ServiceName # <<>> THEN r.ServiceName \o <<".">> \o r.Namespace
    ELSE r.Namespace

GetDomainBlock(r) ==
    IF r.IsFullFQDN THEN GetFullName(r) \o SvcSuffix \o Port53
    ELSE GetFullName(r) \o Port53

ToCorefile(r) ==
    IF r.IsFullFQDN
    THEN GetFullName(r) \o SvcSuffix \o HeadForward \o r.TargetIP \o CloseBlock
    ELSE IF r.ServiceName # <<>>
    THEN GetFullName(r) \o HeadExact \o GetFullName(r) \o <<" ">>
           \o GetFullName(r) \o SvcSuffix \o <<".">>
           \o AnswerForward \o r.TargetIP \o CloseBlock
    ELSE r.Namespace \o HeadRegex \o r.Namespace \o <<" ">>
           \o r.Namespace \o SvcSuffix \o <<".">>
           \o AnswerForward \o r.TargetIP \o CloseBlock

\* (serviceName, namespace, isFullFQDN) as a record
ParseNameInput(input) ==
    LET trimmed == TrimSpace(input)
        fq == HasSuffix(trimmed, SvcSuffix)
        parts == SplitN2(TrimSuffix(trimmed, SvcSuffix), <<".">>)
    IN  IF Len(parts) = 2
        THEN [serviceName |-> parts[1], namespace |-> parts[2], isFullFQDN |-> fq]
        ELSE [serviceName |-> <<>>, namespace |-> parts[1], isFullFQDN |-> fq]

(***************************************************************************)
(* Parser (CoreDNSHandler, parseForwardRules).                             *)
(***************************************************************************)
\* the grammar constant of the lookahead loop: j < i+10
LookaheadLimit == 10

\* the domain part of a candidate header line
DomainPart(trimmed) ==
    TrimSpace(TrimSuffix(TrimSuffix(TrimSuffix(trimmed, <<"{">>), <<" ">>), Port53))

IsCandidateHeader(trimmed) ==
    /\ Contains(trimmed, Port53)
    /\ HasSuffix(trimmed, <<"{">>) \/ HasSuffix(trimmed, <<"{", " ">>)

\* serviceName, namespace and isFullFQDN read from a domain part
HeaderName(domainPart) ==
    IF HasSuffix(domainPart, SvcSuffix)
    THEN LET p == ParseNameInput(TrimSuffix(domainPart, SvcSuffix))
         IN  [serviceName |-> p.serviceName, namespace |-> p.namespace, isFullFQDN |-> TRUE]
    ELSE LET parts == SplitN2(domainPart, <<".">>)
         IN  IF Len(parts) = 2
             THEN [serviceName |-> parts[1], namespace |-> parts[2], isFullFQDN |-> FALSE]
             ELSE [serviceName |-> <<>>, namespace |-> parts[1], isFullFQDN |-> FALSE]

\* LookaheadStop with a window one line longer: j < i+11
LookaheadStopWide(lines, i) ==
    LET hi == IF Len(lines) < i + LookaheadLimit THEN Len(lines)
              ELSE i + LookaheadLimit
        stop == {j \in (i + 1)..hi :
                    \/ HasPrefix(TrimSpace(lines[j]), ForwardDot)
                    \/ Contains(TrimSpace(lines[j]), <<"}">>)}
    IN  IF stop = {} THEN 0 ELSE SetMin(stop)

\* the inner loop: the first line after the header, within the window, that
\* starts with "forward ." or contains "}"; 0 when the window holds none
LookaheadStop(lines, i) ==
    LET hi == IF Len(lines) < i + LookaheadLimit - 1 THEN Len(lines)
              ELSE i + LookaheadLimit - 1
        stop == {j \in (i + 1)..hi :
                    \/ HasPrefix(TrimSpace(lines[j]), ForwardDot)
                    \/ Contains(TrimSpace(lines[j]), <<"}">>)}
    IN  IF stop = {} THEN 0 ELSE SetMin(stop)

\* RuleAt without the test that skips the main zones
RuleAtNoExclusion(lines, i) ==
    LET trimmed == TrimSpace(lines[i])
        domainPart == DomainPart(trimmed)
        h == HeaderName(domainPart)
        j == LookaheadStop(lines, i)
        forwardParts == Fields(TrimSpace(lines[j]))
    IN  IF ~IsCandidateHeader(trimmed) THEN <<>>
        ELSE IF h.namespace = <<>> THEN <<>>
        ELSE IF j = 0 THEN <<>>
        ELSE IF ~HasPrefix(TrimSpace(lines[j]), ForwardDot) THEN <<>>
        ELSE IF Len(forwardParts) < 3 THEN <<>>
        ELSE <<ForwardRule(h.namespace, h.serviceName, forwardParts[3], h.isFullFQDN)>>

\* the rules line i contributes: <<>> or a one-element sequence
RuleAt(lines, i) ==
    LET trimmed == TrimSpace(lines[i])
        domainPart == DomainPart(trimmed)
        h == HeaderName(domainPart)
        j == LookaheadStop(lines, i)
        forwardParts == Fields(TrimSpace(lines[j]))
    IN  IF ~IsCandidateHeader(trimmed) THEN <<>>
        ELSE IF domainPart = <<>> \/ domainPart = <<".">> \/ domainPart = ClusterLocal
        THEN <<>>
        ELSE IF h.namespace = <<>> THEN <<>>
        ELSE IF j = 0 THEN <<>>
        ELSE IF ~HasPrefix(TrimSpace(lines[j]), ForwardDot) THEN <<>>
        ELSE IF Len(forwardParts) < 3 THEN <<>>
        ELSE <<ForwardRule(h.namespace, h.serviceName, forwardParts[3], h.isFullFQDN)>>

RECURSIVE ParseFrom(_, _)
ParseFrom(lines, i) ==
    IF i > Len(lines) THEN <<>> ELSE RuleAt(lines, i) \o ParseFrom(lines, i + 1)

parseForwardRules(corefile) == ParseFrom(Split(corefile, <<NL>>), 1)

(***************************************************************************)
(* Block deletion (CoreDNSHandler.DeleteForwardRule, the text transform).  *)
(***************************************************************************)
\* the header prefix the target block must start with
RuleBlock(name, isFullFQDN) ==
    LET p == ParseNameInput(name)
        fullName == IF p.serviceName # <<>>
                    THEN p.serviceName \o <<".">> \o p.namespace
                    ELSE p.namespace
    IN  IF isFullFQDN THEN fullName \o SvcSuffix \o Port53 ELSE fullName \o Port53

\* the loop with the closing line of the block copied instead of dropped
RECURSIVE DeleteScanKeepsClose(_, _, _, _, _)
DeleteScanKeepsClose(lines, ruleBlock, i, skipBlock, braceCount) ==
    IF i > Len(lines) THEN <<>>
    ELSE LET line == lines[i]
             hit == HasPrefix(TrimSpace(line), ruleBlock)
             skip == skipBlock \/ hit
             base == IF hit THEN 0 ELSE braceCount
             count == base + Count(line, "{") - Count(line, "}")
         IN  IF skip
             THEN IF count <= 0 /\ Contains(line, <<"}">>)
                  THEN <<line>> \o DeleteScanKeepsClose(lines, ruleBlock, i + 1, FALSE, count)
                  ELSE DeleteScanKeepsClose(lines, ruleBlock, i + 1, TRUE, count)
             ELSE <<line>> \o DeleteScanKeepsClose(lines, ruleBlock, i + 1, FALSE, braceCount)

\* the loop over lines, from line i on, with the loop's skipBlock and braceCount
RECURSIVE DeleteScan(_, _, _, _, _)
DeleteScan(lines, ruleBlock, i, skipBlock, braceCount) ==
    IF i > Len(lines) THEN <<>>
    ELSE LET line == lines[i]
             hit == HasPrefix(TrimSpace(line), ruleBlock)
             skip == skipBlock \/ hit
             base == IF hit THEN 0 ELSE braceCount
             count == base + Count(line, "{") - Count(line, "}")
         IN  IF skip
             THEN IF count <= 0 /\ Contains(line, <<"}">>)
                  THEN DeleteScan(lines, ruleBlock, i + 1, FALSE, count)
                  ELSE DeleteScan(lines, ruleBlock, i + 1, TRUE, count)
             ELSE <<line>> \o DeleteScan(lines, ruleBlock, i + 1, FALSE, braceCount)

\* newCorefile of DeleteForwardRule
DeleteBlock(corefile, name, isFullFQDN) ==
    Join(DeleteScan(Split(corefile, <<NL>>), RuleBlock(name, isFullFQDN), 1, FALSE, 0), <<NL>>)

(***************************************************************************)
(* Bounds and inputs.                                                      *)
(***************************************************************************)
\* handler calls in one run of the sequential specification
MaxOps == 2

\* Manager calls started in one run of the cache specifications
MaxCalls == 2

\* the registered clusters (store.GetCluster finds them)
ClusterIDs == {"c1", "c2"}

\* the cluster the CoreDNS requests of a run address; clusters share no text
Requested == {"c1"}

\* m.clients holds no entry for the cluster
NoClient == 0

\* "a"
NameA == <<"a">>

\* "b.a"
NameBA == <<"b", ".", "a">>

\* "a.svc.cluster.local"
NameAFqdn == <<"a">> \o SvcSuffix

\* " ": only white space
NameBlank == <<" ">>

\* "b.": ends in a dot
NameTrailingDot == <<"b", ".">>

\* "cluster.local": service "cluster" in namespace "local"
NameClusterLocal == ClusterLocal

\* "10.0.0.1"
IP1 == <<"1", "0", ".", "0", ".", "0", ".", "1">>

\* ".:53 {\n    forward . /etc/resolv.conf\n}\n": the root zone
RootBlock == <<".", ":", "5", "3", " ", "{", "\n", " ", " ", " ", " ", "f", "o", "r", "w", "a", "r", "d", " ", ".", " ", "/", "e", "t", "c", "/", "r", "e", "s", "o", "l", "v", ".", "c", "o", "n", "f", "\n", "}", "\n">>

\* "a:5353 {\n    forward . 9.9.9.9\n}\n": a zone on another port
OtherPortBlock == <<"a", ":", "5", "3", "5", "3", " ", "{", "\n", " ", " ", " ", " ", "f", "o", "r", "w", "a", "r", "d", " ", ".", " ", "9", ".", "9", ".", "9", ".", "9", "\n", "}", "\n">>

\* names an add request may carry ("" fails the binding's required check)
NameInputs == {<<>>, NameA, NameBA, NameAFqdn, NameBlank, NameTrailingDot, NameClusterLocal}

\* names a delete request may carry (the route parameter is never empty)
DeleteInputs == {NameA, NameBA, NameAFqdn, NameTrailingDot}

\* target addresses a request may carry
IPInputs == {<<>>, IP1}

\* texts a free-form UpdateCorefile request may carry
TextInputs ==
    { RootBlock,
      RootBlock \o ToCorefile(ForwardRule(NameA, <<>>, IP1, FALSE)) \o <<NL>> \o OtherPortBlock,
      ToCorefile(ForwardRule(NameA, <<"b">>, IP1, FALSE)) \o <<NL>> \o RootBlock
         \o ToCorefile(ForwardRule(NameA, <<>>, IP1, TRUE)) \o <<NL>> }

\* the remote call of a handler that fails, if any: those of GetCoreDNSInfo
\* and those of UpdateCorefile
InfoFailures == {"infoGet", "infoService"}

UpdateFailures == {"updateGet", "updateUpdate"}

Failures == {"none"} \cup InfoFailures \cup UpdateFailures

VARIABLES
    corefile,    \* Data["Corefile"] of each cluster's coredns ConfigMap
    clients,     \* Manager.clients
    credOK,      \* whether createClient succeeds on the cluster's kubeconfig
    nextHandle,  \* clientsets constructed so far; a clientset is its number
    ops,         \* handler calls so far
    last         \* the handler call that completed last: request and response

VARIABLES
    crule,       \* codec run: the rule rendered
    rendered,    \* codec run: ToCorefile(crule)
    parsed,      \* codec run: parseForwardRules(rendered)
    cpc          \* codec run: "render", "parse" or "done"

VARIABLES
    pc,          \* Manager callers: the statement each caller is at
    top,         \* the Manager method each caller entered
    tid,         \* cluster.ID of the call
    tclient,     \* the local variable client
    tmade,       \* whether the call ran createClient successfully
    readers,     \* callers holding m.mu for reading
    writer,      \* the caller holding m.mu for writing, or NoThread
    mcalls,      \* Manager calls started so far
    probeFailed, \* clientsets whose ServerVersion call failed
    resolved,    \* per cluster: the clientset the last GetClient returned, since
                 \* the last delete(m.clients, id)
    failedAt,    \* per cluster: the clientset of the TestConnection that last
                 \* returned a connection error, until the next GetClient returns
    lastRet,     \* the GetClient call that returned last
    lastEvict    \* the delete(m.clients, id) executed last

VARIABLES
    rpc,         \* concurrent add/delete: the remote call each caller is at
    rop,         \* the operation of each caller and its arguments
    rsnap,       \* info.Corefile: the text the caller's GetCoreDNSInfo fetched
    rnew,        \* newCorefile: the text the caller is going to write
    rseen,       \* resourceVersion of the ConfigMap UpdateCorefile fetched
    rres,        \* what the operation returned: "none" while it runs
    rver,        \* resourceVersion of the stored ConfigMap
    rcalls,      \* add/delete operations started so far
    stored0      \* the stored texts the run started from

VARIABLES
    kop,         \* timed operation: the method running, or "none"
    kplan,       \* the remote calls the method has still to issue
    inflight,    \* the remote call in flight, or NoRemoteCall
    expired,     \* whether the caller's context is done
    kfailed,     \* whether a remote call of the operation failed or was cut
    kres,        \* what the last operation returned
    kcalls       \* timed operations started so far

applierVars == <<corefile, ops, last>>

managerVars == <<clients, credOK, nextHandle>>

codecVars == <<crule, rendered, parsed, cpc>>

cacheVars == <<pc, top, tid, tclient, tmade, readers, writer, mcalls,
               probeFailed, resolved, failedAt, lastRet, lastEvict>>

raceVars == <<rpc, rop, rsnap, rnew, rseen, rres, rver, rcalls, stored0>>

timeoutVars == <<kop, kplan, inflight, expired, kfailed, kres, kcalls>>

vars == <<applierVars, managerVars, codecVars, cacheVars, raceVars, timeoutVars>>

NoRule == ForwardRule(<<>>, <<>>, <<>>, FALSE)

NoCall ==
    [op |-> "none", id |-> "", name |-> <<>>, ip |-> <<>>, fqdn |-> FALSE,
     rule |-> NoRule, fail |-> "none", before |-> <<>>, err |-> "none",
     status |-> 0, calls |-> 0, wrote |-> FALSE]

(***************************************************************************)
(* Manager.GetClient, run to completion by a single caller.                *)
(***************************************************************************)
GetClientNow(m, id) ==
    IF m.clients[id] # NoClient
    THEN [err |-> FALSE, clients |-> m.clients, nextHandle |-> m.nextHandle]
    ELSE IF ~credOK[id]
    THEN [err |-> TRUE, clients |-> m.clients, nextHandle |-> m.nextHandle]
    ELSE [err |-> FALSE,
          clients |-> [m.clients EXCEPT ![id] = m.nextHandle + 1],
          nextHandle |-> m.nextHandle + 1]

(***************************************************************************)
(* CoreDNSHandler: the outcome of each operation, as a record              *)
(*   err      "none", or the step that failed                              *)
(*   text     the Corefile of the cluster after the operation              *)
(*   calls    remote calls issued (ConfigMaps.Get, Services.Get, Update)   *)
(*   wrote    whether an Update succeeded                                  *)
(***************************************************************************)
Outcome(err, text, g, calls, wrote) ==
    [err |-> err, text |-> text, clients |-> g.clients, nextHandle |-> g.nextHandle,
     calls |-> calls, wrote |-> wrote]

\* GetCoreDNSInfo storing the text it fetched back, with a final newline
GetCoreDNSInfoStoresBack(m, id, fail) ==
    LET g == GetClientNow(m, id)
    IN  IF g.err THEN Outcome("client", corefile[id], g, 0, FALSE)
        ELSE IF fail = "infoGet" THEN Outcome("fetch", corefile[id], g, 1, FALSE)
        ELSE IF fail = "infoService" THEN Outcome("fetch", corefile[id], g, 2, FALSE)
        ELSE Outcome("none", corefile[id] \o <<NL>>, g, 3, TRUE)

GetCoreDNSInfo(m, id, fail) ==
    LET g == GetClientNow(m, id)
    IN  IF g.err THEN Outcome("client", corefile[id], g, 0, FALSE)
        ELSE IF fail = "infoGet" THEN Outcome("fetch", corefile[id], g, 1, FALSE)
        ELSE IF fail = "infoService" THEN Outcome("fetch", corefile[id], g, 2, FALSE)
        ELSE Outcome("none", corefile[id], g, 2, FALSE)

\* UpdateCorefile returning nil when ConfigMaps.Update failed
UpdateCorefileSwallowsError(m, id, text, fail, calls) ==
    LET g == GetClientNow(m, id)
    IN  IF g.err THEN Outcome("client", corefile[id], g, calls, FALSE)
        ELSE IF fail = "updateGet" THEN Outcome("fetch", corefile[id], g, calls + 1, FALSE)
        ELSE IF fail = "updateUpdate" THEN Outcome("none", corefile[id], g, calls + 2, FALSE)
        ELSE Outcome("none", text, g, calls + 2, TRUE)

UpdateCorefile(m, id, text, fail, calls) ==
    LET g == GetClientNow(m, id)
    IN  IF g.err THEN Outcome("client", corefile[id], g, calls, FALSE)
        ELSE IF fail = "updateGet" THEN Outcome("fetch", corefile[id], g, calls + 1, FALSE)
        ELSE IF fail = "updateUpdate" THEN Outcome("write", corefile[id], g, calls + 2, FALSE)
        ELSE Outcome("none", text, g, calls + 2, TRUE)

\* the duplicate check comparing whole identities, the form included
RuleExistsSameForm(rules, rule) ==
    \E k \in 1..Len(rules) :
        /\ GetFullName(rules[k]) = GetFullName(rule)
        /\ rules[k].IsFullFQDN = rule.IsFullFQDN

\* the duplicate check finding no rule
RuleExistsNever(rules, rule) == FALSE

\* the duplicate check of AddForwardRule
RuleExists(rules, rule) ==
    \E k \in 1..Len(rules) : GetFullName(rules[k]) = GetFullName(rule)

\* AddForwardRule appending the block without the newline separator
AddForwardRuleNoSeparator(m, id, rule, fail) ==
    LET info == GetCoreDNSInfo(m, id, fail)
    IN  IF info.err # "none" THEN info
        ELSE IF RuleExists(parseForwardRules(info.text), rule)
        THEN Outcome("duplicate", info.text, info, info.calls, FALSE)
        ELSE UpdateCorefile(info, id, info.text \o ToCorefile(rule) \o <<NL>>,
                            fail, info.calls)

AddForwardRule(m, id, rule, fail) ==
    LET info == GetCoreDNSInfo(m, id, fail)
    IN  IF info.err # "none" THEN info
        ELSE IF RuleExists(parseForwardRules(info.text), rule)
        THEN Outcome("duplicate", info.text, info, info.calls, FALSE)
        ELSE UpdateCorefile(info, id, info.text \o <<NL>> \o ToCorefile(rule) \o <<NL>>,
                            fail, info.calls)

DeleteForwardRule(m, id, name, isFullFQDN, fail) ==
    LET info == GetCoreDNSInfo(m, id, fail)
    IN  IF info.err # "none" THEN info
        ELSE UpdateCorefile(info, id, DeleteBlock(info.text, name, isFullFQDN),
                            fail, info.calls)

(***************************************************************************)
(* HTTP handlers (pkg/handlers/handlers.go), one action each.              *)
(***************************************************************************)
Manager == [clients |-> clients, nextHandle |-> nextHandle]

\* the HTTP status of an outcome
StatusOf(r) == IF r.err = "none" THEN 200 ELSE 500

Respond(call, r) ==
    /\ corefile' = [corefile EXCEPT ![call.id] = r.text]
    /\ clients' = r.clients
    /\ nextHandle' = r.nextHandle
    /\ ops' = ops + 1
    /\ last' = [call EXCEPT !.before = corefile[call.id], !.err = r.err,
                            !.status = StatusOf(r), !.calls = r.calls,
                            !.wrote = r.wrote]
    /\ UNCHANGED <<credOK, codecVars, raceVars, timeoutVars, cacheVars>>

\* the request is rejected before the CoreDNS handler is called
Reject(call) ==
    /\ ops' = ops + 1
    /\ last' = [call EXCEPT !.before = corefile[call.id], !.err = "binding",
                            !.status = 400]
    /\ UNCHANGED <<corefile, managerVars, codecVars, raceVars, timeoutVars, cacheVars>>

HandleGetCoreDNSConfig(id, fail) ==
    /\ ops < MaxOps
    /\ Respond([NoCall EXCEPT !.op = "GetCoreDNSConfig", !.id = id, !.fail = fail],
               GetCoreDNSInfo(Manager, id, fail))

\* binding:"required" rejects an empty corefile
HandleUpdateCorefile(id, text, fail) ==
    /\ ops < MaxOps
    /\ LET call == [NoCall EXCEPT !.op = "UpdateCorefile", !.id = id, !.fail = fail]
       IN  IF text = <<>> THEN fail = "none" /\ Reject(call)
           ELSE Respond(call, UpdateCorefile(Manager, id, text, fail, 0))

\* binding:"required" rejects an empty namespace or target_ip
HandleAddForwardRule(id, namespace, targetIP, fail) ==
    /\ ops < MaxOps
    /\ LET p == ParseNameInput(namespace)
           rule == ForwardRule(p.namespace, p.serviceName, targetIP, p.isFullFQDN)
           call == [NoCall EXCEPT !.op = "AddForwardRule", !.id = id, !.fail = fail,
                                  !.name = namespace, !.ip = targetIP, !.rule = rule]
       IN  IF namespace = <<>> \/ targetIP = <<>> THEN fail = "none" /\ Reject(call)
           ELSE Respond(call, AddForwardRule(Manager, id, rule, fail))

HandleDeleteForwardRule(id, name, isFullFQDN, fail) ==
    /\ ops < MaxOps
    /\ Respond([NoCall EXCEPT !.op = "DeleteForwardRule", !.id = id, !.fail = fail,
                              !.name = name, !.fqdn = isFullFQDN],
               DeleteForwardRule(Manager, id, name, isFullFQDN, fail))

\* callers of the Manager
NThreads == 2

Threads == 1..NThreads

NoThread == 0

NoRet == [id |-> "", client |-> NoClient, err |-> FALSE, constructed |-> FALSE,
          prior |-> NoClient, priorFailed |-> NoClient]

NoEvict == [id |-> "", client |-> NoClient, by |-> "none"]

\* no codec run
CodecIdle ==
    /\ crule = NoRule
    /\ rendered = <<>>
    /\ parsed = <<>>
    /\ cpc = "done"

\* no Manager caller has started
CacheIdle ==
    /\ pc = [t \in Threads |-> "idle"]
    /\ top = [t \in Threads |-> "none"]
    /\ tid = [t \in Threads |-> "c1"]
    /\ tclient = [t \in Threads |-> NoClient]
    /\ tmade = [t \in Threads |-> FALSE]
    /\ readers = {}
    /\ writer = NoThread
    /\ mcalls = 0
    /\ probeFailed = {}
    /\ resolved = [c \in ClusterIDs |-> NoClient]
    /\ failedAt = [c \in ClusterIDs |-> NoClient]
    /\ lastRet = NoRet
    /\ lastEvict = NoEvict

NoRaceOp == [kind |-> "none", name |-> <<>>, fqdn |-> FALSE, rule |-> NoRule]

\* no concurrent add or delete has started
RaceIdle ==
    /\ rpc = [t \in Threads |-> "idle"]
    /\ rop = [t \in Threads |-> NoRaceOp]
    /\ rsnap = [t \in Threads |-> <<>>]
    /\ rnew = [t \in Threads |-> <<>>]
    /\ rseen = [t \in Threads |-> 0]
    /\ rres = [t \in Threads |-> "none"]
    /\ rver = 0
    /\ rcalls = 0
    /\ stored0 = corefile

NoRemoteCall == [kind |-> "none", ctx |-> FALSE]

\* no timed operation has started
TimeoutIdle ==
    /\ kop = "none"
    /\ kplan = <<>>
    /\ inflight = NoRemoteCall
    /\ expired = FALSE
    /\ kfailed = FALSE
    /\ kres = "none"
    /\ kcalls = 0

\* NewManager: an empty client map
ManagerInit ==
    /\ clients = [c \in ClusterIDs |-> NoClient]
    /\ credOK \in [ClusterIDs -> BOOLEAN]
    /\ nextHandle = 0

Init ==
    /\ corefile = [c \in ClusterIDs |-> RootBlock]
    /\ ManagerInit
    /\ ops = 0
    /\ last = NoCall
    /\ CodecIdle
    /\ CacheIdle
    /\ RaceIdle
    /\ TimeoutIdle

Next ==
    \/ \E id \in Requested, fail \in {"none"} \cup InfoFailures :
          HandleGetCoreDNSConfig(id, fail)
    \/ \E id \in Requested, text \in TextInputs \cup {<<>>},
          fail \in {"none"} \cup UpdateFailures :
          HandleUpdateCorefile(id, text, fail)
    \/ \E id \in Requested, n \in NameInputs, ip \in IPInputs, fail \in Failures :
          HandleAddForwardRule(id, n, ip, fail)
    \/ \E id \in Requested, n \in DeleteInputs, fq \in BOOLEAN, fail \in Failures :
          HandleDeleteForwardRule(id, n, fq, fail)

Spec == Init /\ [][Next]_vars
(***************************************************************************)
(* Manager (client cache): GetClient, RemoveClient and TestConnection, one *)
(* action per statement that reads or writes m.mu or m.clients.            *)
(***************************************************************************)
Methods == {"GetClient", "RemoveClient", "TestConnection"}

CacheHistory == <<probeFailed, resolved, failedAt, lastRet, lastEvict>>

Goto(t, label) == pc' = [pc EXCEPT ![t] = label]

\* the method returns to its caller: its locals are gone
Return(t) ==
    /\ pc' = [pc EXCEPT ![t] = "idle"]
    /\ top' = [top EXCEPT ![t] = "none"]
    /\ tid' = [tid EXCEPT ![t] = "c1"]
    /\ tclient' = [tclient EXCEPT ![t] = NoClient]
    /\ tmade' = [tmade EXCEPT ![t] = FALSE]

Locals == <<top, tid, tclient, tmade>>

\* a caller enters a Manager method with a cluster
Enter(t, method, id) ==
    /\ pc[t] = "idle"
    /\ mcalls < MaxCalls
    /\ mcalls' = mcalls + 1
    /\ top' = [top EXCEPT ![t] = method]
    /\ tid' = [tid EXCEPT ![t] = id]
    /\ tclient' = [tclient EXCEPT ![t] = NoClient]
    /\ tmade' = [tmade EXCEPT ![t] = FALSE]
    /\ Goto(t, IF method = "RemoveClient" THEN "rm_lock" ELSE "gc_rlock")
    /\ UNCHANGED <<applierVars, managerVars, codecVars, raceVars, timeoutVars, readers, writer, CacheHistory>>

\* m.mu.RLock()
GcRLock(t) ==
    /\ pc[t] = "gc_rlock"
    /\ writer = NoThread
    /\ readers' = readers \cup {t}
    /\ Goto(t, "gc_read")
    /\ UNCHANGED <<applierVars, managerVars, codecVars, raceVars, timeoutVars, top, tid, tclient, tmade,
                   writer, mcalls, CacheHistory>>

\* client, exists := m.clients[cluster.ID]
GcRead(t) ==
    /\ pc[t] = "gc_read"
    /\ tclient' = [tclient EXCEPT ![t] = clients[tid[t]]]
    /\ Goto(t, "gc_runlock")
    /\ UNCHANGED <<applierVars, managerVars, codecVars, raceVars, timeoutVars, top, tid, tmade, readers,
                   writer, mcalls, CacheHistory>>

\* GcRUnlock creating a client whether or not the entry exists
GcRUnlockAlwaysCreates(t) ==
    /\ pc[t] = "gc_runlock"
    /\ readers' = readers \ {t}
    /\ Goto(t, "gc_create")
    /\ UNCHANGED <<applierVars, managerVars, codecVars, raceVars, timeoutVars, top, tid, tclient, tmade,
                   writer, mcalls, CacheHistory>>

\* GcRUnlock keeping the read lock while the client is created
GcRUnlockKeepsRLock(t) ==
    /\ pc[t] = "gc_runlock"
    /\ readers' = IF tclient[t] # NoClient THEN readers \ {t} ELSE readers
    /\ Goto(t, IF tclient[t] # NoClient THEN "gc_return" ELSE "gc_create")
    /\ UNCHANGED <<applierVars, managerVars, codecVars, raceVars, timeoutVars, top, tid,
                   tclient, tmade, writer, mcalls, CacheHistory>>

\* m.mu.RUnlock(); if exists { return client, nil }
GcRUnlock(t) ==
    /\ pc[t] = "gc_runlock"
    /\ readers' = readers \ {t}
    /\ Goto(t, IF tclient[t] # NoClient THEN "gc_return" ELSE "gc_create")
    /\ UNCHANGED <<applierVars, managerVars, codecVars, raceVars, timeoutVars, top, tid, tclient, tmade,
                   writer, mcalls, CacheHistory>>

\* client, err := m.createClient(cluster); if err != nil { return nil, err }
GcCreate(t) ==
    /\ pc[t] = "gc_create"
    /\ IF credOK[tid[t]]
       THEN /\ nextHandle' = nextHandle + 1
            /\ tclient' = [tclient EXCEPT ![t] = nextHandle + 1]
            /\ tmade' = [tmade EXCEPT ![t] = TRUE]
            /\ Goto(t, "gc_lock")
       ELSE /\ Goto(t, "gc_fail")
            /\ UNCHANGED <<nextHandle, tclient, tmade>>
    /\ UNCHANGED <<applierVars, clients, credOK, codecVars, raceVars, timeoutVars, top, tid, readers,
                   writer, mcalls, CacheHistory>>

\* m.mu.Lock()
GcLock(t) ==
    /\ pc[t] = "gc_lock"
    /\ writer = NoThread
    /\ readers = {}
    /\ writer' = t
    /\ Goto(t, "gc_insert")
    /\ UNCHANGED <<applierVars, managerVars, codecVars, raceVars, timeoutVars, top, tid, tclient, tmade,
                   readers, mcalls, CacheHistory>>

\* GcInsert keeping the entry another caller inserted first
GcInsertIfAbsent(t) ==
    /\ pc[t] = "gc_insert"
    /\ clients' = IF clients[tid[t]] # NoClient THEN clients
                  ELSE [clients EXCEPT ![tid[t]] = tclient[t]]
    /\ Goto(t, "gc_unlock")
    /\ UNCHANGED <<applierVars, credOK, nextHandle, codecVars, raceVars, timeoutVars, top,
                   tid, tclient, tmade, readers, writer, mcalls, CacheHistory>>

\* m.clients[cluster.ID] = client
GcInsert(t) ==
    /\ pc[t] = "gc_insert"
    /\ clients' = [clients EXCEPT ![tid[t]] = tclient[t]]
    /\ Goto(t, "gc_unlock")
    /\ UNCHANGED <<applierVars, credOK, nextHandle, codecVars, raceVars, timeoutVars, top, tid, tclient,
                   tmade, readers, writer, mcalls, CacheHistory>>

\* m.mu.Unlock()
GcUnlock(t) ==
    /\ pc[t] = "gc_unlock"
    /\ writer' = NoThread
    /\ Goto(t, "gc_return")
    /\ UNCHANGED <<applierVars, managerVars, codecVars, raceVars, timeoutVars, top, tid, tclient, tmade,
                   readers, mcalls, CacheHistory>>

\* return client, nil; TestConnection goes on to its connectivity test
GcReturn(t) ==
    /\ pc[t] = "gc_return"
    /\ lastRet' = [id |-> tid[t], client |-> tclient[t], err |-> FALSE,
                   constructed |-> tmade[t], prior |-> resolved[tid[t]],
                   priorFailed |-> failedAt[tid[t]]]
    /\ resolved' = [resolved EXCEPT ![tid[t]] = tclient[t]]
    /\ failedAt' = [failedAt EXCEPT ![tid[t]] = NoClient]
    /\ IF top[t] = "TestConnection"
       THEN Goto(t, "tc_probe") /\ UNCHANGED Locals
       ELSE Return(t)
    /\ UNCHANGED <<applierVars, managerVars, codecVars, raceVars, timeoutVars, readers, writer, mcalls,
                   probeFailed, lastEvict>>

\* GcFail dropping the entry of the cluster before it returns the error
GcFailDropsEntry(t) ==
    /\ pc[t] = "gc_fail"
    /\ clients' = [clients EXCEPT ![tid[t]] = NoClient]
    /\ lastRet' = [id |-> tid[t], client |-> NoClient, err |-> TRUE,
                   constructed |-> FALSE, prior |-> resolved[tid[t]],
                   priorFailed |-> failedAt[tid[t]]]
    /\ Return(t)
    /\ UNCHANGED <<applierVars, credOK, nextHandle, codecVars, raceVars, timeoutVars,
                   readers, writer, mcalls, probeFailed, resolved, failedAt, lastEvict>>

\* return nil, err; TestConnection returns the error too
GcFail(t) ==
    /\ pc[t] = "gc_fail"
    /\ lastRet' = [id |-> tid[t], client |-> NoClient, err |-> TRUE,
                   constructed |-> FALSE, prior |-> resolved[tid[t]],
                   priorFailed |-> failedAt[tid[t]]]
    /\ Return(t)
    /\ UNCHANGED <<applierVars, managerVars, codecVars, raceVars, timeoutVars, readers, writer, mcalls,
                   probeFailed, resolved, failedAt, lastEvict>>

\* TcProbe without the RemoveClient call of the failure branch
TcProbeNoEvict(t) ==
    /\ pc[t] = "tc_probe"
    /\ \E ok \in BOOLEAN :
          IF ok
          THEN Return(t) /\ UNCHANGED probeFailed
          ELSE /\ probeFailed' = probeFailed \cup {tclient[t]}
               /\ Goto(t, "tc_fail")
               /\ UNCHANGED Locals
    /\ UNCHANGED <<applierVars, managerVars, codecVars, raceVars, timeoutVars, readers, writer, mcalls,
                   resolved, failedAt, lastRet, lastEvict>>

\* TcProbe calling RemoveClient whatever ServerVersion returns
TcProbeAlwaysEvicts(t) ==
    /\ pc[t] = "tc_probe"
    /\ \E ok \in BOOLEAN :
          /\ probeFailed' = IF ok THEN probeFailed ELSE probeFailed \cup {tclient[t]}
          /\ Goto(t, "rm_lock")
    /\ UNCHANGED <<applierVars, managerVars, codecVars, raceVars, timeoutVars, top, tid, tclient, tmade,
                   readers, writer, mcalls, resolved, failedAt, lastRet, lastEvict>>

\* _, err = client.Discovery().ServerVersion(); on an error RemoveClient
\* is called
TcProbe(t) ==
    /\ pc[t] = "tc_probe"
    /\ \E ok \in BOOLEAN :
          IF ok
          THEN Return(t) /\ UNCHANGED probeFailed
          ELSE /\ probeFailed' = probeFailed \cup {tclient[t]}
               /\ Goto(t, "rm_lock")
               /\ UNCHANGED Locals
    /\ UNCHANGED <<applierVars, managerVars, codecVars, raceVars, timeoutVars, readers, writer, mcalls,
                   resolved, failedAt, lastRet, lastEvict>>

\* RemoveClient: m.mu.Lock()
RmLock(t) ==
    /\ pc[t] = "rm_lock"
    /\ writer = NoThread
    /\ readers = {}
    /\ writer' = t
    /\ Goto(t, "rm_delete")
    /\ UNCHANGED <<applierVars, managerVars, codecVars, raceVars, timeoutVars, top, tid, tclient, tmade,
                   readers, mcalls, CacheHistory>>

\* RemoveClient: delete(m.clients, clusterID)
RmDelete(t) ==
    /\ pc[t] = "rm_delete"
    /\ clients' = [clients EXCEPT ![tid[t]] = NoClient]
    /\ lastEvict' = [id |-> tid[t], client |-> clients[tid[t]], by |-> top[t]]
    /\ resolved' = [resolved EXCEPT ![tid[t]] = NoClient]
    /\ Goto(t, "rm_unlock")
    /\ UNCHANGED <<applierVars, credOK, nextHandle, codecVars, raceVars, timeoutVars, top, tid, tclient,
                   tmade, readers, writer, mcalls, probeFailed, failedAt, lastRet>>

\* RemoveClient: the deferred m.mu.Unlock()
RmUnlock(t) ==
    /\ pc[t] = "rm_unlock"
    /\ writer' = NoThread
    /\ IF top[t] = "TestConnection"
       THEN Goto(t, "tc_fail") /\ UNCHANGED Locals
       ELSE Return(t)
    /\ UNCHANGED <<applierVars, managerVars, codecVars, raceVars, timeoutVars, readers, mcalls, CacheHistory>>

\* return fmt.Errorf("failed to connect to cluster: %w", err)
TcFail(t) ==
    /\ pc[t] = "tc_fail"
    /\ failedAt' = [failedAt EXCEPT ![tid[t]] = tclient[t]]
    /\ Return(t)
    /\ UNCHANGED <<applierVars, managerVars, codecVars, raceVars, timeoutVars, readers, writer, mcalls,
                   probeFailed, resolved, lastRet, lastEvict>>

InitCache ==
    /\ corefile = [c \in ClusterIDs |-> RootBlock]
    /\ ManagerInit
    /\ ops = 0
    /\ last = NoCall
    /\ CodecIdle
    /\ CacheIdle
    /\ RaceIdle
    /\ TimeoutIdle

\* the other callers are between calls
Alone(t) == \A u \in Threads \ {t} : pc[u] = "idle"

NextCache ==
    \E t \in Threads :
        \/ \E method \in Methods, id \in ClusterIDs : Enter(t, method, id)
        \/ GcRLock(t)
        \/ GcRead(t)
        \/ GcRUnlock(t)
        \/ GcCreate(t)
        \/ GcLock(t)
        \/ GcInsert(t)
        \/ GcUnlock(t)
        \/ GcReturn(t)
        \/ GcFail(t)
        \/ TcProbe(t)
        \/ RmLock(t)
        \/ RmDelete(t)
        \/ RmUnlock(t)
        \/ TcFail(t)

\* callers running concurrently
SpecCache == InitCache /\ [][NextCache]_vars

\* one call at a time: a caller takes a step only while the others are idle
NextCacheSeq ==
    \E t \in Threads :
        \/ Alone(t) /\ \E method \in Methods, id \in ClusterIDs : Enter(t, method, id)
        \/ Alone(t) /\ GcRLock(t)
        \/ Alone(t) /\ GcRead(t)
        \/ Alone(t) /\ GcRUnlock(t)
        \/ Alone(t) /\ GcCreate(t)
        \/ Alone(t) /\ GcLock(t)
        \/ Alone(t) /\ GcInsert(t)
        \/ Alone(t) /\ GcUnlock(t)
        \/ Alone(t) /\ GcReturn(t)
        \/ Alone(t) /\ GcFail(t)
        \/ Alone(t) /\ TcProbe(t)
        \/ Alone(t) /\ RmLock(t)
        \/ Alone(t) /\ RmDelete(t)
        \/ Alone(t) /\ RmUnlock(t)
        \/ Alone(t) /\ TcFail(t)

SpecCacheSeq == InitCache /\ [][NextCacheSeq]_vars

\* Store.UpdateCluster: the record of the cluster is replaced, and with it
\* the kubeconfig later createClient calls decode
UpdateCluster(id, ok) ==
    /\ credOK[id] # ok
    /\ credOK' = [credOK EXCEPT ![id] = ok]
    /\ UNCHANGED <<applierVars, clients, nextHandle, codecVars, cacheVars, raceVars,
                   timeoutVars>>

\* concurrent GetClient calls while the kubeconfig of a cluster may change
NextResolve ==
    \/ \E id \in ClusterIDs, ok \in BOOLEAN : UpdateCluster(id, ok)
    \/ \E t \in Threads :
        \/ \E id \in ClusterIDs : Enter(t, "GetClient", id)
        \/ GcRLock(t)
        \/ GcRead(t)
        \/ GcRUnlock(t)
        \/ GcCreate(t)
        \/ GcLock(t)
        \/ GcInsert(t)
        \/ GcUnlock(t)
        \/ GcReturn(t)
        \/ GcFail(t)

SpecResolve == InitCache /\ [][NextResolve]_vars

(***************************************************************************)
(* Codec run: one rule is rendered, and the rendered block is parsed as    *)
(* the sole content of a text.                                             *)
(***************************************************************************)
\* "10.0.0.2"
IP2 == <<"1", "0", ".", "0", ".", "0", ".", "2">>

\* service names of a rule; <<>> for a namespace-level rule
ServiceInputs == {<<>>, <<"b">>, <<"c", "l", "u", "s", "t", "e", "r">>}

\* namespaces of a rule
NamespaceInputs == {<<"a">>, <<"b">>, <<"l", "o", "c", "a", "l">>, <<"p", "r", "o", "d">>}

RuleInputs ==
    {ForwardRule(ns, svc, ip, fq) :
        ns \in NamespaceInputs, svc \in ServiceInputs, ip \in {IP1, IP2}, fq \in BOOLEAN}

InitCodec ==
    /\ crule \in RuleInputs
    /\ rendered = <<>>
    /\ parsed = <<>>
    /\ cpc = "render"
    /\ corefile = [c \in ClusterIDs |-> RootBlock]
    /\ clients = [c \in ClusterIDs |-> NoClient]
    /\ credOK = [c \in ClusterIDs |-> TRUE]
    /\ nextHandle = 0
    /\ ops = 0
    /\ last = NoCall
    /\ CacheIdle
    /\ RaceIdle
    /\ TimeoutIdle

Render ==
    /\ cpc = "render"
    /\ rendered' = ToCorefile(crule)
    /\ cpc' = "parse"
    /\ UNCHANGED <<crule, parsed, applierVars, managerVars, cacheVars, raceVars, timeoutVars>>

Parse ==
    /\ cpc = "parse"
    /\ parsed' = parseForwardRules(rendered)
    /\ cpc' = "done"
    /\ UNCHANGED <<crule, rendered, applierVars, managerVars, cacheVars, raceVars, timeoutVars>>

NextCodec == Render \/ Parse

SpecCodec == InitCodec /\ [][NextCodec]_vars

(***************************************************************************)
(* Properties of the CoreDNS handlers, read off the last completed call.   *)
(***************************************************************************)
Lines(t) == Split(t, <<NL>>)

\* the rule a delete request names, forwarding to ip
TargetRule(name, isFullFQDN, ip) ==
    LET p == ParseNameInput(name)
    IN  ForwardRule(p.namespace, p.serviceName, ip, isFullFQDN)

\* the lines whose trimmed form starts with the prefix
StartingWith(lines, prefix) ==
    {i \in 1..Len(lines) : HasPrefix(TrimSpace(lines[i]), prefix)}

\* the lines that are exactly the header prefix and an opening brace
HeadersOf(lines, prefix) ==
    {i \in 1..Len(lines) :
        TrimSuffix(TrimSuffix(TrimSpace(lines[i]), <<"{">>), <<" ">>) = prefix
        /\ HasSuffix(TrimSpace(lines[i]), <<"{">>)}

\* lines without the lines k..m
Without(lines, k, m) == SubSeq(lines, 1, k - 1) \o SubSeq(lines, m + 1, Len(lines))

RECURSIVE BraceDepth(_, _, _)
BraceDepth(lines, k, m) ==
    IF m < k THEN 0
    ELSE BraceDepth(lines, k, m - 1) + Count(lines[m], "{") - Count(lines[m], "}")

\* the closing line of the block whose header is line k
BlockEnd(lines, k) ==
    LET ends == {m \in k..Len(lines) :
                    BraceDepth(lines, k, m) <= 0 /\ Contains(lines[m], <<"}">>)}
    IN  IF ends = {} THEN Len(lines) ELSE SetMin(ends)

DeleteWrote == last.op = "DeleteForwardRule" /\ last.wrote

AddCalled == last.op = "AddForwardRule" /\ last.status # 400

\* where the rendered block of the deleted rule sits in the text before the
\* delete, as the only lines that start with the rule's header prefix
RenderedAt(before, prefix, name, isFullFQDN) ==
    {<<k, n>> \in (1..Len(before)) \X (1..4) :
        /\ StartingWith(before, prefix) = {k}
        /\ \E ip \in IPInputs \ {<<>>} :
              /\ n = Len(Lines(ToCorefile(TargetRule(name, isFullFQDN, ip))))
              /\ k + n - 1 <= Len(before)
              /\ SubSeq(before, k, k + n - 1)
                    = Lines(ToCorefile(TargetRule(name, isFullFQDN, ip)))}

\* C2: non-interference of deletion.  When the text holds the rendered block
\* of rule R and otherwise only lines unrelated to R (none starts with R's
\* header prefix), the text written back is the text without R's block:
\* every other line is there, unchanged and in order.  When the text holds
\* no line related to R, the text written back is the text itself.
C2_NonInterference ==
    DeleteWrote =>
        LET before == Lines(last.before)
            prefix == RuleBlock(last.name, last.fqdn)
        IN  /\ StartingWith(before, prefix) = {} => corefile[last.id] = last.before
            /\ \A at \in RenderedAt(before, prefix, last.name, last.fqdn) :
                  Lines(corefile[last.id]) = Without(before, at[1], at[1] + at[2] - 1)

\* C2 witness: R's block was deleted from between or beside other blocks
C2_Witness ==
    /\ DeleteWrote
    /\ LET before == Lines(last.before)
       IN  \E at \in RenderedAt(before, RuleBlock(last.name, last.fqdn),
                                last.name, last.fqdn) :
              \E i \in 1..Len(before) :
                  /\ i < at[1] \/ i > at[1] + at[2] - 1
                  /\ Contains(before[i], <<"{">>)
                  /\ i + 2 <= Len(Lines(corefile[last.id])) + at[2]

\* C3: duplicate rejection.  An add whose rule has the fullName of a rule
\* parsed from the current text fails, issues no write and leaves the text
\* as it was; when the text was fetched the error is the duplicate error.
C3_DuplicateRejected ==
    (AddCalled /\ \E k \in 1..Len(parseForwardRules(last.before)) :
                     GetFullName(parseForwardRules(last.before)[k]) = GetFullName(last.rule))
    => /\ last.status = 500
       /\ ~last.wrote
       /\ last.calls <= 2
       /\ corefile[last.id] = last.before
       /\ last.err \in {"client", "fetch", "duplicate"}
       /\ (credOK[last.id] /\ last.fail \notin InfoFailures) => last.err = "duplicate"

\* C3 witness: a rule was refused as the duplicate of a rule of the other form
C3_Witness ==
    /\ AddCalled
    /\ last.err = "duplicate"
    /\ \E k \in 1..Len(parseForwardRules(last.before)) :
          /\ GetFullName(parseForwardRules(last.before)[k]) = GetFullName(last.rule)
          /\ parseForwardRules(last.before)[k].IsFullFQDN # last.rule.IsFullFQDN

\* C4: a name that parses to an empty namespace is rejected as invalid input
\* before any remote call, so no block with an empty namespace is written.
C4_EmptyNamespaceRejected ==
    (last.op = "AddForwardRule" /\ last.rule.Namespace = <<>>)
    => /\ last.status = 400
       /\ last.calls = 0
       /\ ~last.wrote

\* C5: a delete removes exactly one block, the block of the target rule, and
\* every other line, the blocks whose header merely begins with the target
\* header prefix included, is written back unchanged and in order.
C5_ExactlyOneBlockRemoved ==
    DeleteWrote =>
        LET before == Lines(last.before)
            heads == HeadersOf(before, RuleBlock(last.name, last.fqdn))
        IN  Lines(corefile[last.id])
              = IF heads = {} THEN before
                ELSE Without(before, SetMin(heads), BlockEnd(before, SetMin(heads)))

\* C6: a delete whose header prefix matches no line of the text reports an
\* error to the caller.
C6_DeleteMissingReportsError ==
    (last.op = "DeleteForwardRule"
        /\ StartingWith(Lines(last.before), RuleBlock(last.name, last.fqdn)) = {})
    => last.status # 200

\* C7: a successful add only appends.  The text written back starts with the
\* fetched text, then a newline, then the rendered block (and ends with the
\* newline that terminates the block); the lines of the fetched text are the
\* first lines of the new text.
C7_AddOnlyAppends ==
    (last.op = "AddForwardRule" /\ last.err = "none")
    => LET new == corefile[last.id]
           old == Lines(last.before)
       IN  /\ last.wrote
           /\ HasPrefix(new, last.before \o <<NL>> \o ToCorefile(last.rule))
           /\ new = last.before \o <<NL>> \o ToCorefile(last.rule) \o <<NL>>
           /\ SubSeq(Lines(new), 1, Len(old)) = old

\* C7 witness: a block was appended to a text that already held a rule
C7_Witness ==
    /\ last.op = "AddForwardRule"
    /\ last.err = "none"
    /\ Len(parseForwardRules(last.before)) > 0
    /\ Len(parseForwardRules(corefile[last.id])) > Len(parseForwardRules(last.before))

(***************************************************************************)
(* Properties of the codec.                                                *)
(***************************************************************************)
\* C1: round trip.  For every rule shape with a non-empty namespace token and
\* a non-empty targetIP token, parsing the text that is ToCorefile(rule)
\* alone returns exactly that rule.
C1_RoundTrip == cpc = "done" => parsed = <<crule>>

\* the round trip of every rule but the service-level short rule of service
\* "cluster" in namespace "local", whose header is the root zone the parser
\* skips
RoundTripButClusterLocal ==
    (cpc = "done" /\ (crule.IsFullFQDN \/ GetFullName(crule) # ClusterLocal))
    => parsed = <<crule>>

(***************************************************************************)
(* Properties of the client cache.                                         *)
(***************************************************************************)
\* a TestConnection whose ServerVersion call failed and whose RemoveClient
\* has not deleted the entry yet
Evicting(t) ==
    /\ top[t] = "TestConnection"
    /\ pc[t] \in {"rm_lock", "rm_delete"}
    /\ tclient[t] \in probeFailed

\* C8: with one call at a time, a GetClient that follows a GetClient of the
\* same cluster with no delete of the entry between them returns the same
\* clientset and constructs nothing, and the first GetClient after a
\* TestConnection of the cluster returned a connection error constructs a new
\* clientset, distinct from the one removed.
C8_SequentialCacheLifecycle ==
    /\ lastRet.prior # NoClient
          => /\ ~lastRet.err
             /\ lastRet.client = lastRet.prior
             /\ ~lastRet.constructed
    /\ (lastRet.priorFailed # NoClient /\ ~lastRet.err)
          => /\ lastRet.constructed
             /\ lastRet.client # NoClient
             /\ lastRet.client # lastRet.priorFailed
             /\ lastRet.prior = NoClient

\* C8 witness: a GetClient has returned a new clientset after a failed
\* TestConnection of the cluster
C8_Witness ==
    /\ lastRet.priorFailed # NoClient
    /\ ~lastRet.err
    /\ lastRet.constructed
    /\ clients[lastRet.id] = lastRet.client
    /\ lastEvict.client = lastRet.priorFailed

\* the sequential case of a repeated GetClient is reached as well
C8_WitnessRepeated ==
    /\ lastRet.prior # NoClient
    /\ lastRet.client = lastRet.prior
    /\ clients[lastRet.id] = lastRet.client

\* C9, as claimed: when TestConnection returns a connection error the
\* clientset it probed is not in the cache under the cluster, and a cluster
\* is only ever absent or mapped to a clientset that has not failed a probe.
C9_NoUnhealthyRetained ==
    /\ \A t \in Threads : pc[t] = "tc_fail" => clients[tid[t]] # tclient[t]
    /\ \A c \in ClusterIDs : clients[c] \notin probeFailed

\* C9, amended: when TestConnection returns a connection error the clientset
\* it probed is not in the cache under the cluster, under every interleaving;
\* a clientset that has failed a probe is mapped only while a TestConnection
\* that saw it fail has still to run its RemoveClient.
C9_FailedHandleEvicted ==
    /\ \A t \in Threads : pc[t] = "tc_fail" => clients[tid[t]] # tclient[t]
    /\ \A c \in ClusterIDs :
          clients[c] \in probeFailed
             => \E t \in Threads :
                   Evicting(t) /\ tid[t] = c /\ tclient[t] = clients[c]

\* C9 witness: a TestConnection is about to return its connection error
\* while another caller is inside GetClient for the same cluster
C9_Witness ==
    \E t \in Threads, u \in Threads :
        /\ t # u
        /\ pc[t] = "tc_fail"
        /\ tid[u] = tid[t]
        /\ pc[u] \in {"gc_create", "gc_lock", "gc_insert", "gc_unlock", "gc_return"}

\* C10, as claimed: an entry leaves the cache only as part of a
\* TestConnection whose ServerVersion call failed.
C10_OnlyFailedProbeEvicts ==
    [][\A c \in ClusterIDs :
          (clients[c] # NoClient /\ clients'[c] = NoClient)
             => \E t \in Threads :
                   /\ pc[t] = "rm_delete" /\ pc'[t] = "rm_unlock"
                   /\ tid[t] = c
                   /\ top[t] = "TestConnection" /\ tclient[t] \in probeFailed]_vars

\* C10, amended: an entry leaves the cache only in the delete statement of
\* RemoveClient, which runs as part of a TestConnection whose ServerVersion
\* call failed or as a RemoveClient call of the caller (DeleteCluster);
\* GetClient and a successful TestConnection remove nothing.
C10_EvictionPaths ==
    [][\A c \in ClusterIDs :
          (clients[c] # NoClient /\ clients'[c] = NoClient)
             => \E t \in Threads :
                   /\ pc[t] = "rm_delete" /\ pc'[t] = "rm_unlock"
                   /\ tid[t] = c
                   /\ \/ top[t] = "RemoveClient"
                      \/ top[t] = "TestConnection" /\ tclient[t] \in probeFailed]_vars

\* C10 witness: a RemoveClient call of the caller has removed an entry
C10_Witness ==
    /\ lastEvict.by = "RemoveClient"
    /\ lastEvict.client # NoClient
    /\ clients[lastEvict.id] = NoClient

\* a failed TestConnection has removed an entry as well
C10_WitnessProbe ==
    /\ lastEvict.by = "TestConnection"
    /\ lastEvict.client # NoClient
    /\ lastEvict.client \in probeFailed

(***************************************************************************)
(* Properties of the CoreDNS handlers: reads and failures.                 *)
(***************************************************************************)
\* C11: GetCoreDNSInfo never changes remote state.  Whatever the outcome of
\* a GetCoreDNSConfig request, the stored text after it is the stored text
\* before it, no Update succeeded, and the remote calls issued are at most
\* the two Get calls.
C11_GetInfoReadOnly ==
    last.op = "GetCoreDNSConfig"
    => /\ corefile[last.id] = last.before
       /\ ~last.wrote
       /\ last.calls <= 2
       /\ last.err \in {"none", "client", "fetch"}

\* C11 witness: a text with forward rules was read successfully
C11_Witness ==
    /\ last.op = "GetCoreDNSConfig"
    /\ last.err = "none"
    /\ last.calls = 2
    /\ Len(parseForwardRules(last.before)) > 0

\* C14: remote failures are propagated and leave the store untouched.  When
\* the client cannot be built or a read of GetCoreDNSInfo fails during an
\* add or a delete, the request fails with that error, no write is issued
\* and the stored text is unchanged; when a call of UpdateCorefile fails the
\* request fails as well and is not reported as a success.
C14_RemoteFailuresPropagated ==
    (last.op \in {"AddForwardRule", "DeleteForwardRule"} /\ last.status # 400)
    => /\ (~credOK[last.id] \/ last.fail \in InfoFailures)
             => /\ last.status = 500
                /\ last.err = IF credOK[last.id] THEN "fetch" ELSE "client"
                /\ ~last.wrote
                /\ last.calls <= 2
                /\ corefile[last.id] = last.before
       /\ last.fail \in UpdateFailures
             => /\ last.status = 500
                /\ last.err # "none"
                /\ ~last.wrote

\* C14 witness: the write of a delete or of an add failed after the text
\* was fetched
C14_Witness ==
    /\ last.op \in {"AddForwardRule", "DeleteForwardRule"}
    /\ last.fail = "updateUpdate"
    /\ last.err = "write"
    /\ last.calls = 4

\* a read of GetCoreDNSInfo failed during an add or a delete
C14_WitnessFetch ==
    /\ last.op \in {"AddForwardRule", "DeleteForwardRule"}
    /\ last.fail \in InfoFailures
    /\ last.err = "fetch"

(***************************************************************************)
(* Parser run: parseForwardRules is applied to a configuration text made   *)
(* of one block, or of a main-zone block followed by one block.            *)
(***************************************************************************)
\* lines between a header and its forward directive, at most
MaxGap == 10

\* "    errors": a directive the parser does not look for
FillerLine == <<" ", " ", " ", " ", "e", "r", "r", "o", "r", "s">>

\* "    forward . 10.0.0.1"
ForwardLine == <<" ", " ", " ", " ", "f", "o", "r", "w", "a", "r", "d", " ", ".", " ", "1", "0", ".", "0", ".", "0", ".", "1">>

\* "    forward .": a forward directive with no target
ForwardBare == <<" ", " ", " ", " ", "f", "o", "r", "w", "a", "r", "d", " ", ".">>

ForwardLines == {ForwardLine, ForwardBare}

\* ".:53 {", ".:53{", "cluster.local:53 {", "cluster.local:53{"
MainZoneHeaders ==
    { <<".", ":", "5", "3", " ", "{">>,
      <<".", ":", "5", "3", "{">>,
      ClusterLocal \o <<":", "5", "3", " ", "{">>,
      ClusterLocal \o <<":", "5", "3", "{">> }

\* "a:53 {", "b.a:53{", "a.svc.cluster.local:53 {"
RuleHeaders ==
    { <<"a", ":", "5", "3", " ", "{">>,
      <<"b", ".", "a", ":", "5", "3", "{">>,
      <<"a">> \o SvcSuffix \o <<":", "5", "3", " ", "{">> }

\* a block: the header, k lines of which line c (if any) is a closing brace,
\* the forward line f and the closing brace
BlockLines(h, k, c, f) ==
    <<h>> \o [n \in 1..k |-> IF n = c THEN <<"}">> ELSE FillerLine] \o <<f, <<"}">>>>

BlockText(h, k, c, f) == Join(BlockLines(h, k, c, f), <<NL>>) \o <<NL>>

ParserTexts ==
    {BlockText(h, k, c, f) :
        h \in MainZoneHeaders \cup RuleHeaders, k \in 0..MaxGap, c \in 0..MaxGap,
        f \in ForwardLines}
    \cup {BlockText(z, 0, 0, ForwardLine) \o BlockText(h, k, 0, ForwardLine) :
             z \in MainZoneHeaders, h \in RuleHeaders, k \in {0, MaxGap}}

InitParser ==
    /\ crule = NoRule
    /\ rendered \in ParserTexts
    /\ parsed = <<>>
    /\ cpc = "parse"
    /\ corefile = [c \in ClusterIDs |-> RootBlock]
    /\ clients = [c \in ClusterIDs |-> NoClient]
    /\ credOK = [c \in ClusterIDs |-> TRUE]
    /\ nextHandle = 0
    /\ ops = 0
    /\ last = NoCall
    /\ CacheIdle
    /\ RaceIdle
    /\ TimeoutIdle

NextParser == Parse

SpecParser == InitParser /\ [][NextParser]_vars

(***************************************************************************)
(* Properties of the parser.                                               *)
(***************************************************************************)
\* the text of the parser run was parsed
ParserDone == cpc = "done" /\ crule = NoRule

\* line j is a forward directive with a target
IsForwardWithTarget(lines, j) ==
    /\ HasPrefix(TrimSpace(lines[j]), ForwardDot)
    /\ Len(Fields(TrimSpace(lines[j]))) >= 3

\* C12: domain exclusion.  A block whose header is ".:53 {" or
\* "cluster.local:53 {", with or without the space before the brace,
\* contributes no rule, whatever its body holds: no parsed rule has the
\* domain block ".:53" or "cluster.local:53", and a text all of whose
\* headers are main-zone headers parses to no rule.
C12_DomainExclusion ==
    ParserDone =>
        LET lines == Split(rendered, <<NL>>)
        IN  /\ \A n \in 1..Len(parsed) :
                  GetDomainBlock(parsed[n]) \notin {<<".">> \o Port53, ClusterLocal \o Port53}
            /\ (\A i \in 1..Len(lines) :
                   HasSuffix(TrimSpace(lines[i]), <<"{">>)
                      => TrimSpace(lines[i]) \in MainZoneHeaders)
                  => parsed = <<>>

\* C12 witness: a "cluster.local:53" block with a forward directive right
\* after its header was parsed, before a block that yields a rule
C12_Witness ==
    /\ ParserDone
    /\ Len(parsed) = 1
    /\ LET lines == Split(rendered, <<NL>>)
       IN  /\ DomainPart(lines[1]) = ClusterLocal
           /\ IsForwardWithTarget(lines, 2)

\* C13: lookahead bound.  Every parsed rule has a header line followed,
\* among the 9 lines after it and before any line containing "}", by a line
\* that starts with "forward ." and has at least three fields, the third
\* being the rule's target; a directive further away, or after a closing
\* brace, yields no rule for that header.
C13_LookaheadBound ==
    ParserDone =>
        LET lines == Split(rendered, <<NL>>)
        IN  \A n \in 1..Len(parsed) :
               \E i \in 1..Len(lines) :
                  /\ HasPrefix(TrimSpace(lines[i]), GetDomainBlock(parsed[n]))
                  /\ \E j \in (i + 1)..(i + 9) :
                        /\ j <= Len(lines)
                        /\ IsForwardWithTarget(lines, j)
                        /\ Fields(TrimSpace(lines[j]))[3] = parsed[n].TargetIP
                        /\ \A m \in (i + 1)..(j - 1) : ~Contains(lines[m], <<"}">>)

\* C13 witness: a rule header whose forward directive is the tenth line
\* after it, with no closing brace between them, gave no rule
C13_Witness ==
    /\ ParserDone
    /\ parsed = <<>>
    /\ LET lines == Split(rendered, <<NL>>)
       IN  /\ lines[1] \in RuleHeaders
           /\ Len(lines) >= 11
           /\ IsForwardWithTarget(lines, 11)
           /\ \A m \in 2..10 : lines[m] = FillerLine

\* a forward directive within the window but after a closing brace gave no
\* rule
C13_WitnessAfterBrace ==
    /\ ParserDone
    /\ parsed = <<>>
    /\ LET lines == Split(rendered, <<NL>>)
       IN  /\ lines[1] \in RuleHeaders
           /\ Len(lines) >= 4
           /\ lines[2] = <<"}">>
           /\ IsForwardWithTarget(lines, 4)

\* a forward directive that is the ninth line after the header gave a rule
C13_WitnessInWindow ==
    /\ ParserDone
    /\ Len(parsed) = 1
    /\ LET lines == Split(rendered, <<NL>>)
       IN  /\ lines[1] \in RuleHeaders
           /\ Len(lines) >= 10
           /\ IsForwardWithTarget(lines, 10)
           /\ \A m \in 2..9 : lines[m] = FillerLine

(***************************************************************************)
(* Properties of the client cache: locking and concurrent misses.          *)
(***************************************************************************)
\* the caller holds m.mu, for reading or for writing
HoldsLock(t) == t \in readers \/ writer = t

\* the caller waits for m.mu and sync.RWMutex does not grant it
Blocked(t) ==
    \/ pc[t] = "gc_rlock" /\ writer # NoThread
    \/ pc[t] \in {"gc_lock", "rm_lock"} /\ (writer # NoThread \/ readers # {})

\* C17: no lock is held across a remote call.  A caller that runs
\* createClient or the ServerVersion call holds m.mu neither for reading nor
\* for writing; m.mu is held only at the statements that read, insert into
\* or delete from m.clients and at the unlock that follows; and whenever a
\* call is in progress some caller in a call can take a step (no deadlock).
C17_NoLockAcrossRemoteCalls ==
    /\ \A t \in Threads : pc[t] \in {"gc_create", "tc_probe"} => ~HoldsLock(t)
    /\ \A t \in Threads :
          HoldsLock(t) => pc[t] \in {"gc_read", "gc_runlock", "gc_insert", "gc_unlock",
                                     "rm_delete", "rm_unlock"}
    /\ (\E t \in Threads : pc[t] # "idle")
          => \E t \in Threads : pc[t] # "idle" /\ ~Blocked(t)

\* C17 witness: a caller runs createClient or ServerVersion while another
\* caller holds m.mu for writing
C17_Witness ==
    \E t \in Threads, u \in Threads :
        /\ t # u
        /\ pc[t] \in {"gc_create", "tc_probe"}
        /\ writer = u

\* C18: concurrent misses, last writer wins.  The entry of a cluster changes
\* only in the insert statement of GetClient, which stores the inserting
\* caller's own clientset over whatever is there, and in the delete
\* statement of RemoveClient; so after two concurrent misses with no delete
\* the one entry of the cluster is the clientset inserted last.
C18_LastInsertWins ==
    [][/\ \A t \in Threads :
             (pc[t] = "gc_insert" /\ pc'[t] = "gc_unlock")
                => clients'[tid[t]] = tclient[t]
       /\ \A c \in ClusterIDs :
             clients'[c] # clients[c]
                => \E t \in Threads :
                      /\ tid[t] = c
                      /\ \/ pc[t] = "gc_insert" /\ pc'[t] = "gc_unlock"
                         \/ pc[t] = "rm_delete" /\ pc'[t] = "rm_unlock"]_vars

\* C18 witness: two callers missed on the same cluster and both constructed
\* a clientset; with no delete so far the entry is the clientset of the
\* caller that inserted last and has returned, and the caller that inserted
\* first is about to return a clientset that is not in the cache
C18_Witness ==
    \E t \in Threads :
        /\ pc[t] = "gc_return"
        /\ tmade[t]
        /\ clients[tid[t]] # NoClient
        /\ clients[tid[t]] # tclient[t]
        /\ lastRet.id = tid[t]
        /\ lastRet.constructed
        /\ lastRet.client = clients[tid[t]]
        /\ lastEvict = NoEvict

(***************************************************************************)
(* Concurrent AddForwardRule and DeleteForwardRule calls on one cluster,   *)
(* one action per remote call that reads or writes the coredns ConfigMap.  *)
(* The client is cached and Services.Get returns; what the API server does *)
(* with the resourceVersion of the updated object is modelled: an Update   *)
(* of an object fetched before another Update is refused.                  *)
(***************************************************************************)
\* add and delete operations started in one run
MaxRaceCalls == 2

\* the cluster the concurrent calls address
RaceCluster == "c1"

\* a text with an unclosed header: the block of b.a and then "b.a:53 {"
DanglingText ==
    ToCorefile(ForwardRule(NameA, <<"b">>, IP1, FALSE)) \o <<NL>>
       \o <<"b", ".", "a", ":", "5", "3", " ", "{", NL>>

\* stored texts a run starts from
RaceTexts ==
    { RootBlock,
      RootBlock \o ToCorefile(ForwardRule(NameA, <<>>, IP1, FALSE)) \o <<NL>>,
      DanglingText }

RaceAdd(name) ==
    LET p == ParseNameInput(name)
    IN  [kind |-> "add", name |-> name, fqdn |-> p.isFullFQDN,
         rule |-> ForwardRule(p.namespace, p.serviceName, IP1, p.isFullFQDN)]

RaceDelete(name, isFullFQDN) ==
    [kind |-> "delete", name |-> name, fqdn |-> isFullFQDN, rule |-> NoRule]

RaceOps == {RaceAdd(NameA), RaceAdd(NameBA), RaceDelete(NameA, FALSE)}

\* a caller enters AddForwardRule or DeleteForwardRule
RaceBegin(t, op) ==
    /\ rpc[t] = "idle"
    /\ rcalls < MaxRaceCalls
    /\ rcalls' = rcalls + 1
    /\ rop' = [rop EXCEPT ![t] = op]
    /\ rsnap' = [rsnap EXCEPT ![t] = <<>>]
    /\ rnew' = [rnew EXCEPT ![t] = <<>>]
    /\ rres' = [rres EXCEPT ![t] = "none"]
    /\ rpc' = [rpc EXCEPT ![t] = "info"]
    /\ UNCHANGED <<applierVars, managerVars, codecVars, cacheVars, timeoutVars,
                   rseen, rver, stored0>>

\* GetCoreDNSInfo: ConfigMaps.Get; then, on the caller's copy, the duplicate
\* check and the new text
RaceInfo(t) ==
    /\ rpc[t] = "info"
    /\ rsnap' = [rsnap EXCEPT ![t] = corefile[RaceCluster]]
    /\ LET text == corefile[RaceCluster]
           op == rop[t]
       IN  IF op.kind = "add" /\ RuleExists(parseForwardRules(text), op.rule)
           THEN /\ rres' = [rres EXCEPT ![t] = "duplicate"]
                /\ rpc' = [rpc EXCEPT ![t] = "idle"]
                /\ UNCHANGED rnew
           ELSE /\ rnew' = [rnew EXCEPT ![t] =
                              IF op.kind = "add"
                              THEN text \o <<NL>> \o ToCorefile(op.rule) \o <<NL>>
                              ELSE DeleteBlock(text, op.name, op.fqdn)]
                /\ rpc' = [rpc EXCEPT ![t] = "update_get"]
                /\ UNCHANGED rres
    /\ UNCHANGED <<applierVars, managerVars, codecVars, cacheVars, timeoutVars,
                   rop, rseen, rver, rcalls, stored0>>

\* UpdateCorefile: ConfigMaps.Get, the object that is going to be updated
RaceUpdateGet(t) ==
    /\ rpc[t] = "update_get"
    /\ rseen' = [rseen EXCEPT ![t] = rver]
    /\ rpc' = [rpc EXCEPT ![t] = "update_put"]
    /\ UNCHANGED <<applierVars, managerVars, codecVars, cacheVars, timeoutVars,
                   rop, rsnap, rnew, rres, rver, rcalls, stored0>>

\* RaceUpdatePut storing the text only while the store holds the text the
\* caller read (compare-and-swap on the text)
RaceUpdatePutIfUnchanged(t) ==
    /\ rpc[t] = "update_put"
    /\ IF rseen[t] = rver /\ corefile[RaceCluster] = rsnap[t]
       THEN /\ corefile' = [corefile EXCEPT ![RaceCluster] = rnew[t]]
            /\ rver' = rver + 1
            /\ rres' = [rres EXCEPT ![t] = "ok"]
       ELSE /\ rres' = [rres EXCEPT ![t] = "conflict"]
            /\ UNCHANGED <<corefile, rver>>
    /\ rpc' = [rpc EXCEPT ![t] = "idle"]
    /\ UNCHANGED <<ops, last, managerVars, codecVars, cacheVars, timeoutVars,
                   rop, rsnap, rnew, rseen, rcalls, stored0>>

\* UpdateCorefile: configMap.Data[CorefileName] = corefile; ConfigMaps.Update
RaceUpdatePut(t) ==
    /\ rpc[t] = "update_put"
    /\ IF rseen[t] = rver
       THEN /\ corefile' = [corefile EXCEPT ![RaceCluster] = rnew[t]]
            /\ rver' = rver + 1
            /\ rres' = [rres EXCEPT ![t] = "ok"]
       ELSE /\ rres' = [rres EXCEPT ![t] = "conflict"]
            /\ UNCHANGED <<corefile, rver>>
    /\ rpc' = [rpc EXCEPT ![t] = "idle"]
    /\ UNCHANGED <<ops, last, managerVars, codecVars, cacheVars, timeoutVars,
                   rop, rsnap, rnew, rseen, rcalls, stored0>>

InitRace ==
    /\ \E text \in RaceTexts :
          corefile = [c \in ClusterIDs |-> IF c = RaceCluster THEN text ELSE RootBlock]
    /\ clients = [c \in ClusterIDs |-> NoClient]
    /\ credOK = [c \in ClusterIDs |-> TRUE]
    /\ nextHandle = 0
    /\ ops = 0
    /\ last = NoCall
    /\ CodecIdle
    /\ CacheIdle
    /\ RaceIdle
    /\ TimeoutIdle

NextRace ==
    \E t \in Threads :
        \/ \E op \in RaceOps : RaceBegin(t, op)
        \/ RaceInfo(t)
        \/ RaceUpdateGet(t)
        \/ RaceUpdatePut(t)

SpecRace == InitRace /\ [][NextRace]_vars

(***************************************************************************)
(* Properties of concurrent adds and deletes.                              *)
(***************************************************************************)
\* the fullNames of the rules parsed from a text
NamesIn(text) ==
    LET rules == parseForwardRules(text)
    IN  {GetFullName(rules[n]) : n \in 1..Len(rules)}

\* the rules parsed from the text have pairwise distinct fullNames
DistinctNames(text) ==
    LET rules == parseForwardRules(text)
    IN  \A i \in 1..Len(rules), j \in 1..Len(rules) :
           i # j => GetFullName(rules[i]) # GetFullName(rules[j])

\* every line that opens a block is followed by a line with a closing brace
\* before the next line that opens a block
BlocksClosed(text) ==
    LET lines == Split(text, <<NL>>)
    IN  \A i \in 1..Len(lines) :
           HasSuffix(TrimSpace(lines[i]), <<"{">>)
              => \E m \in (i + 1)..Len(lines) :
                    /\ Contains(lines[m], <<"}">>)
                    /\ \A n \in (i + 1)..(m - 1) :
                          ~HasSuffix(TrimSpace(lines[n]), <<"{">>)

\* C16: lost update.  Nothing compares the stored text with the text a
\* caller read: an Update whose object was fetched at the current
\* resourceVersion succeeds and stores the caller's own text, whatever the
\* store holds by then; so two concurrent calls can both report success
\* while the text keeps only the change written last.
C16_WriteStoresOwnCopy ==
    [][\A t \in Threads :
          (rpc[t] = "update_put" /\ rpc'[t] = "idle" /\ rseen[t] = rver)
             => /\ rres'[t] = "ok"
                /\ corefile'[RaceCluster] = rnew[t]
                /\ rnew[t] = IF rop[t].kind = "add"
                             THEN rsnap[t] \o <<NL>> \o ToCorefile(rop[t].rule) \o <<NL>>
                             ELSE DeleteBlock(rsnap[t], rop[t].name, rop[t].fqdn)]_vars

\* C16 witness: two adds of different rules read the same text and both
\* returned success; the stored text parses to the rule written last and
\* not to the rule written first
C16_Witness ==
    \E t \in Threads, u \in Threads :
        /\ t # u
        /\ rpc[t] = "idle" /\ rpc[u] = "idle"
        /\ rres[t] = "ok" /\ rres[u] = "ok"
        /\ rop[t].kind = "add" /\ rop[u].kind = "add"
        /\ rsnap[t] = rsnap[u]
        /\ GetFullName(rop[t].rule) # GetFullName(rop[u].rule)
        /\ GetFullName(rop[t].rule) \notin NamesIn(corefile[RaceCluster])
        /\ GetFullName(rop[u].rule) \in NamesIn(corefile[RaceCluster])
        /\ corefile[RaceCluster] = rnew[u]

MaxTimedCalls == 2

\* a remote call that is passed ctx
CtxCall(kind) == [kind |-> kind, ctx |-> TRUE]

\* GetCoreDNSInfo: ConfigMaps.Get(ctx, ...), Services.Get(ctx, ...)
InfoPlan == <<CtxCall("ConfigMaps.Get"), CtxCall("Services.Get")>>

\* UpdateCorefile: ConfigMaps.Get(ctx, ...), ConfigMaps.Update(ctx, ...)
UpdatePlan == <<CtxCall("ConfigMaps.Get"), CtxCall("ConfigMaps.Update")>>

\* TestConnection: client.Discovery().ServerVersion(), which takes no ctx
ProbePlan == <<[kind |-> "ServerVersion", ctx |-> FALSE]>>

\* the remote calls a method issues when none fails; AddForwardRule stops
\* after GetCoreDNSInfo on a duplicate
Plans(op) ==
    CASE op = "GetCoreDNSInfo" -> {InfoPlan}
      [] op = "UpdateCorefile" -> {UpdatePlan}
      [] op = "AddForwardRule" -> {InfoPlan, InfoPlan \o UpdatePlan}
      [] op = "DeleteForwardRule" -> {InfoPlan \o UpdatePlan}
      [] op = "TestConnection" -> {ProbePlan}

TimedOps ==
    {"GetCoreDNSInfo", "UpdateCorefile", "AddForwardRule", "DeleteForwardRule",
     "TestConnection"}

\* a handler creates ctx with context.WithTimeout and calls the method
KStart(op, plan) ==
    /\ kop = "none"
    /\ kcalls < MaxTimedCalls
    /\ kcalls' = kcalls + 1
    /\ kop' = op
    /\ kplan' = plan
    /\ expired' = FALSE
    /\ kfailed' = FALSE
    /\ kres' = "none"
    /\ UNCHANGED <<applierVars, managerVars, codecVars, cacheVars, raceVars, inflight>>

\* the method issues its next remote call; a call given a ctx that is done
\* returns the context error at once
KIssue ==
    /\ kop # "none"
    /\ inflight = NoRemoteCall
    /\ kplan # <<>>
    /\ ~kfailed
    /\ IF Head(kplan).ctx /\ expired
       THEN /\ kfailed' = TRUE
            /\ kplan' = <<>>
            /\ kres' = "timeout"
            /\ UNCHANGED inflight
       ELSE /\ inflight' = Head(kplan)
            /\ kplan' = Tail(kplan)
            /\ UNCHANGED <<kfailed, kres>>
    /\ UNCHANGED <<applierVars, managerVars, codecVars, cacheVars, raceVars,
                   kop, expired, kcalls>>

\* the server answers the call in flight; on an error the method returns it
KAnswer(ok) ==
    /\ inflight # NoRemoteCall
    /\ inflight' = NoRemoteCall
    /\ IF ok THEN UNCHANGED <<kplan, kfailed, kres>>
       ELSE /\ kfailed' = TRUE
            /\ kplan' = <<>>
            /\ kres' = "error"
    /\ UNCHANGED <<applierVars, managerVars, codecVars, cacheVars, raceVars,
                   kop, expired, kcalls>>

\* the deadline of ctx passes: a call in flight that was given ctx ends with
\* the context error, a call that was not given ctx stays in flight
KExpire ==
    /\ kop # "none"
    /\ ~expired
    /\ expired' = TRUE
    /\ IF inflight.ctx
       THEN /\ inflight' = NoRemoteCall
            /\ kfailed' = TRUE
            /\ kplan' = <<>>
            /\ kres' = "timeout"
       ELSE UNCHANGED <<inflight, kfailed, kplan, kres>>
    /\ UNCHANGED <<applierVars, managerVars, codecVars, cacheVars, raceVars, kop, kcalls>>

\* the method returns: nil when every call succeeded, else the error
KReturn ==
    /\ kop # "none"
    /\ inflight = NoRemoteCall
    /\ kplan = <<>>
    /\ kop' = "none"
    /\ kres' = IF kfailed THEN kres ELSE "ok"
    /\ expired' = FALSE
    /\ kfailed' = FALSE
    /\ UNCHANGED <<applierVars, managerVars, codecVars, cacheVars, raceVars,
                   kplan, inflight, kcalls>>

InitTimeout ==
    /\ corefile = [c \in ClusterIDs |-> RootBlock]
    /\ clients = [c \in ClusterIDs |-> NoClient]
    /\ credOK = [c \in ClusterIDs |-> TRUE]
    /\ nextHandle = 0
    /\ ops = 0
    /\ last = NoCall
    /\ CodecIdle
    /\ CacheIdle
    /\ RaceIdle
    /\ TimeoutIdle

NextTimeout ==
    \/ \E op \in TimedOps : \E plan \in Plans(op) : KStart(op, plan)
    \/ KIssue
    \/ \E ok \in BOOLEAN : KAnswer(ok)
    \/ KExpire
    \/ KReturn

SpecTimeout == InitTimeout /\ [][NextTimeout]_vars

(***************************************************************************)
(* Properties of timed operations.                                         *)
(***************************************************************************)
\* C15: every remote call is bounded by the caller's context.  Once ctx is
\* done no remote call of the operation is in flight any more, and after a
\* call failed or was cut the operation issues no further call.
C15_RemoteCallsBoundedByContext ==
    /\ expired => inflight = NoRemoteCall
    /\ kfailed => inflight = NoRemoteCall /\ kplan = <<>>

\* the same for the methods of CoreDNSHandler, which pass ctx to every call
ContextBoundsCoreDNSCalls ==
    kop # "TestConnection" => C15_RemoteCallsBoundedByContext

(***************************************************************************)
(* Properties of the CoreDNS handlers: what an add leaves behind.          *)
(***************************************************************************)
\* C20: every block an add writes is recognised afterwards.  After a
\* successful add the rules parsed from the stored text include a rule with
\* the fullName of the added rule (so that adding it again is refused as a
\* duplicate).
C20_AddedRuleIsParsed ==
    (last.op = "AddForwardRule" /\ last.err = "none")
    => GetFullName(last.rule) \in NamesIn(corefile[last.id])

\* the same for the rules with a non-empty namespace other than service
\* "cluster" in namespace "local" in the short form
AddedRuleIsParsedButClusterLocal ==
    (/\ last.op = "AddForwardRule"
     /\ last.err = "none"
     /\ last.rule.Namespace # <<>>
     /\ last.rule.IsFullFQDN \/ GetFullName(last.rule) # ClusterLocal)
    => GetFullName(last.rule) \in NamesIn(corefile[last.id])

(***************************************************************************)
(* Delete run: the rules of a stored text are listed (parseForwardRules,   *)
(* as GetCoreDNSInfo returns them) and one of the listed rules is deleted  *)
(* through the delete handler, by its full name and its form.              *)
(***************************************************************************)
\* rule blocks after the root block in a stored text, at most
MaxBlocks == 2

\* "a :53 {": the zone and the port as two keys of the server block
HeaderSpacedPort == <<"a", " ", ":", "5", "3", " ", "{">>

DeleteHeaders == RuleHeaders \cup {HeaderSpacedPort}

\* the texts of at most n blocks, each a header, a forward line and a brace
RECURSIVE BlockSeqs(_)
BlockSeqs(n) ==
    IF n = 0 THEN {<<>>}
    ELSE LET shorter == BlockSeqs(n - 1)
         IN  shorter \cup {t \o BlockText(h, 0, 0, ForwardLine) :
                              t \in shorter, h \in DeleteHeaders}

DeleteTexts == {RootBlock \o t : t \in BlockSeqs(MaxBlocks)}

InitDelete ==
    /\ crule = NoRule
    /\ rendered \in DeleteTexts
    /\ parsed = <<>>
    /\ cpc = "parse"
    /\ corefile = [c \in ClusterIDs |-> IF c \in Requested THEN rendered ELSE RootBlock]
    /\ clients = [c \in ClusterIDs |-> NoClient]
    /\ credOK = [c \in ClusterIDs |-> TRUE]
    /\ nextHandle = 0
    /\ ops = 0
    /\ last = NoCall
    /\ CacheIdle
    /\ RaceIdle
    /\ TimeoutIdle

\* the delete request for the k-th listed rule
DeleteListed(id, k, fail) ==
    /\ cpc = "done"
    /\ last = NoCall
    /\ k \in 1..Len(parsed)
    /\ HandleDeleteForwardRule(id, GetFullName(parsed[k]), parsed[k].IsFullFQDN, fail)

NextDelete ==
    \/ Parse
    \/ \E id \in Requested, k \in 1..MaxBlocks, fail \in Failures :
           DeleteListed(id, k, fail)

SpecDelete == InitDelete /\ [][NextDelete]_vars

\* the rules of a text with the given full name and form
Matching(text, fullName, isFullFQDN) ==
    LET rules == parseForwardRules(text)
    IN  {k \in 1..Len(rules) :
            GetFullName(rules[k]) = fullName /\ rules[k].IsFullFQDN = isFullFQDN}

\* a delete of a rule the parser returned from the stored text has written
DeletedListedRule ==
    /\ last.op = "DeleteForwardRule"
    /\ last.err = "none"
    /\ last.wrote
    /\ Matching(last.before, last.name, last.fqdn) # {}

\* C21: every parsed rule is deletable.  After a delete called with the full
\* name and the form of a rule the parser returned from the stored text, the
\* parse of the text written back holds no rule with that full name and form.
C21_ParsedRuleDeletable ==
    DeletedListedRule => Matching(corefile[last.id], last.name, last.fqdn) = {}

\* the same for the rules whose header has no white space before the port
ParsedRuleDeletableUnlessSpaced ==
    (/\ DeletedListedRule
     /\ \A i \in 1..Len(Lines(last.before)) :
            ~HasPrefix(Lines(last.before)[i], HeaderSpacedPort))
    => Matching(corefile[last.id], last.name, last.fqdn) = {}

\* a listed rule was deleted and is gone from the parse of the written text
DeletedRuleGone ==
    /\ DeletedListedRule
    /\ Matching(corefile[last.id], last.name, last.fqdn) = {}
    /\ corefile[last.id] # last.before

(***************************************************************************)
(* Properties of GetClient when createClient fails.                        *)
(***************************************************************************)
\* the statements of GetClient up to the failed construction and its return
BeforeInsert == {"gc_rlock", "gc_read", "gc_runlock", "gc_create", "gc_fail"}

\* C22: a GetClient whose createClient fails returns the error and leaves
\* m.clients as it is: none of its statements writes the map (no entry is
\* inserted, an entry another caller inserted meanwhile stays), it returns
\* nil and the error, and a GetClient that finds no entry goes on to
\* createClient whatever failed before.
C22_FailedResolveLeavesCache ==
    [][\A t \in Threads :
          /\ (pc[t] \in BeforeInsert /\ pc'[t] # pc[t]) => clients' = clients
          /\ (pc[t] = "gc_fail" /\ pc'[t] # pc[t])
             => /\ lastRet'.err
                /\ lastRet'.client = NoClient
                /\ lastRet'.id = tid[t]
                /\ ~tmade[t]
          /\ (pc[t] = "gc_runlock" /\ pc'[t] # pc[t] /\ tclient[t] = NoClient)
             => pc'[t] = "gc_create"]_vars

\* C22 witness: a GetClient returned the error of createClient while the
\* map holds the entry another caller inserted for the same cluster
C22_Witness ==
    /\ lastRet.err
    /\ clients[lastRet.id] # NoClient
    /\ \A t \in Threads : pc[t] = "idle"

\* a GetClient returned the error and the map holds no entry for the cluster
C22_WitnessNoEntry ==
    /\ lastRet.err
    /\ clients[lastRet.id] = NoClient
    /\ \A t \in Threads : pc[t] = "idle"

\* after a GetClient returned the error, a GetClient for the same cluster is
\* the only call running and has constructed a clientset
C22_WitnessRetry ==
    /\ lastRet.err
    /\ \E t \in Threads :
          /\ Alone(t)
          /\ tid[t] = lastRet.id
          /\ pc[t] = "gc_lock"
          /\ tmade[t]
          /\ clients[tid[t]] = NoClient

=============================================================================
